---- MODULE Spec2Model ----
(***************************************************************************)
(* Lazy parametric primitives of trimesh/primitives.py: Cylinder, Sphere,  *)
(* Box, Extrusion and their base class.  One primitive object per          *)
(* behaviour; its class is chosen in Init.  Parameters live in the data    *)
(* store (self._data), the derived arrays in the cache (self._cache).      *)
(*                                                                         *)
(* Spec is the object constructed without keyword arguments under every    *)
(* parameter read and write; SpecBuilt starts from the constructors with   *)
(* keyword arguments; SpecMesh adds to_mesh and edits of the mesh it       *)
(* returns.                                                                *)
(*                                                                         *)
(* Numbers are integers.  Cached vertex coordinates of Box and Sphere are  *)
(* carried doubled, because the unit box has its corners at +-1/2: the     *)
(* templates below are twice the program's, and where the program adds a   *)
(* translation to vertices the model adds it twice.                        *)
(***************************************************************************)
EXTENDS Integers, Sequences, FiniteSets, TLC

VARIABLES
    kind,       \* class of the object
    data,       \* self._data: key -> stored array, NoneVal when missing
    attrs,      \* instance attributes of the _PrimitiveAttributes object
    cache,      \* self._cache: id of the store it was filled for + slots
    ret,        \* the last call: operation, argument, error, returned value
    runs,       \* _create_mesh calls since the last parameter write
    okRuns,     \* _create_mesh calls that returned, since the last write
    lastRead,   \* per derived field, the array last returned since then
    given,      \* last value successfully assigned to extrude_height
    slideBase,  \* extrude_transform when it was last assigned directly
    slideSum,   \* sum of the distances slid since
    slideCount, \* number of slide calls since
    snapshot,   \* the Trimesh last returned by to_mesh, as it is now
    unit_sphere \* self._unit_sphere of a Sphere: vertices, faces, face_normals

vars == <<kind, data, attrs, cache, ret, runs, okRuns, lastRead, given,
          slideBase, slideSum, slideCount, snapshot,
          unit_sphere>>

\* ------------------------------------------------------------------ bounds
MaxRuns == 2
MaxSlides == 2

\* ------------------------------------------------------------ array values
NoneVal == [set |-> FALSE, shape |-> <<>>, v |-> <<>>]
Arr1(v) == [set |-> TRUE, shape |-> <<Len(v)>>, v |-> v]
Arr2(rows) == [set |-> TRUE, shape |-> <<Len(rows), Len(rows[1])>>, v |-> rows]
ArrN3(rows) == [set |-> TRUE, shape |-> <<Len(rows), 3>>, v |-> rows]
Term(n, t) == [set |-> TRUE, shape |-> <<n, 3>>, v |-> t]

\* util.is_shape(obj, shape); -1 in the pattern matches any length
is_shape(obj, shape) ==
    /\ obj.set
    /\ Len(obj.shape) = Len(shape)
    /\ \A i \in 1..Len(shape) : shape[i] = -1 \/ shape[i] = obj.shape[i]

\* ---------------------------------------------------------- linear algebra
eye4 == << <<1,0,0,0>>, <<0,1,0,0>>, <<0,0,1,0>>, <<0,0,0,1>> >>
eye3 == << <<1,0,0>>, <<0,1,0>>, <<0,0,1>> >>
ones3 == <<1, 1, 1>>
zeros3 == <<0, 0, 0>>

Dot3(a, b) == a[1]*b[1] + a[2]*b[2] + a[3]*b[3]
Cross3(a, b) == << a[2]*b[3] - a[3]*b[2],
                   a[3]*b[1] - a[1]*b[3],
                   a[1]*b[2] - a[2]*b[1] >>
Sub3(a, b) == << a[1]-b[1], a[2]-b[2], a[3]-b[3] >>
Add3(a, b) == << a[1]+b[1], a[2]+b[2], a[3]+b[3] >>
Mul3(a, b) == << a[1]*b[1], a[2]*b[2], a[3]*b[3] >>
Scale3(k, a) == << k*a[1], k*a[2], k*a[3] >>
Twice(a) == Add3(a, a)

\* M[0:3,0:3] and M[0:3,3]
RotationBlock(M) == [i \in 1..3 |-> [j \in 1..3 |-> M[i][j]]]
TranslationColumn(M) == [i \in 1..3 |-> M[i][4]]
MatVec3(R, x) == [i \in 1..3 |-> Dot3(R[i], x)]
\* np.dot of two (4,4) matrices
MatMul4(A, B) ==
    [i \in 1..4 |-> [j \in 1..4 |->
        A[i][1]*B[1][j] + A[i][2]*B[2][j] + A[i][3]*B[3][j] + A[i][4]*B[4][j]]]

\* points.transform_points(points, matrix): rotation block times the point
\* plus the translation column, the bottom row of the matrix unused
transform_points(pts, M) ==
    [i \in 1..Len(pts) |->
        Add3(MatVec3(RotationBlock(M), pts[i]),
             Twice(TranslationColumn(M)))]

\* triangles.windings_aligned for one triangle: the right-hand-rule normal of
\* the winding has a positive dot product with the normal compared
windings_aligned(tri, normal) ==
    Dot3(Cross3(Sub3(tri[2], tri[1]), Sub3(tri[3], tri[1])), normal) > 0

\* mutant: the slice faces[:1] of the winding test kept when reversing
fliplr_first(faces) == << << faces[1][3], faces[1][2], faces[1][1] >> >>

\* np.fliplr(faces)
fliplr(faces) ==
    [j \in 1..Len(faces) |-> << faces[j][3], faces[j][2], faces[j][1] >>]

\* faces hold 0-based vertex indices, as in the program
Vertex(vertices, i) == vertices[i + 1]
Triangle(vertices, face) ==
    << Vertex(vertices, face[1]), Vertex(vertices, face[2]),
       Vertex(vertices, face[3]) >>

\* ---------------------------------------------------------------- templates
\* creation.box(): 8 corners, 12 triangles, one normal per triangle
UnitBoxVertices ==
    << <<-1,-1,-1>>, <<-1,-1,1>>, <<-1,1,-1>>, <<-1,1,1>>,
       <<1,-1,-1>>,  <<1,-1,1>>,  <<1,1,-1>>,  <<1,1,1>> >>
UnitBoxFaces ==
    << <<1,3,0>>, <<4,1,0>>, <<0,3,2>>, <<2,4,0>>, <<1,7,3>>, <<5,1,4>>,
       <<5,7,1>>, <<3,7,2>>, <<6,4,2>>, <<2,7,6>>, <<6,5,4>>, <<7,5,6>> >>
UnitBoxNormals ==
    << <<-1,0,0>>, <<0,-1,0>>, <<-1,0,0>>, <<0,0,-1>>, <<0,0,1>>, <<0,-1,0>>,
       <<0,0,1>>,  <<0,1,0>>,  <<0,0,-1>>, <<0,1,0>>,  <<1,0,0>>, <<1,0,0>> >>

\* creation.icosphere(subdivisions): a closed triangulated sphere with its
\* vertices at distance 1 from the origin; the octahedron stands for it, its
\* normals given as directions
UnitSphereVertices ==
    << <<2,0,0>>, <<-2,0,0>>, <<0,2,0>>, <<0,-2,0>>, <<0,0,2>>, <<0,0,-2>> >>
UnitSphereFaces ==
    << <<0,2,4>>, <<2,1,4>>, <<1,3,4>>, <<3,0,4>>,
       <<2,0,5>>, <<1,2,5>>, <<3,1,5>>, <<0,3,5>> >>
UnitSphereNormals ==
    << <<1,1,1>>,  <<-1,1,1>>,  <<-1,-1,1>>,  <<1,-1,1>>,
       <<1,1,-1>>, <<-1,1,-1>>, <<-1,-1,-1>>, <<1,-1,-1>> >>

\* creation.cylinder(radius, height, sections): two rings of `sections`
\* vertices and two cap centres; vertices and normals are terms naming the
\* generator and its arguments, faces are index triples
cylinder(radius, height, sections) ==
    LET s == sections
        nxt(k) == (k + 1) % s
    IN [ nv |-> 2*s + 2,
         vertices |-> <<"cylinder.vertices", radius, height, s>>,
         faces |-> [j \in 1..(4*s) |->
             LET k == (j - 1) % s
                 q == (j - 1) \div s
             IN  IF q = 0 THEN << k, nxt(k), s + k >>
                 ELSE IF q = 1 THEN << nxt(k), s + nxt(k), s + k >>
                 ELSE IF q = 2 THEN << 2*s, nxt(k), k >>
                 ELSE << 2*s + 1, s + k, s + nxt(k) >>],
         face_normals |-> <<"cylinder.face_normals", radius, height, s>> ]

\* number of boundary vertices of a validated polygon
PolygonSides(polygon) == IF polygon = "triangle" THEN 3 ELSE 4

\* creation.extrude_polygon(polygon, height): the polygon at z=0 and at
\* z=height, side quads split in two, caps triangulated as fans
extrude_polygon_mesh(polygon, height) ==
    LET n == PolygonSides(polygon)
        nxt(k) == (k + 1) % n
    IN [ nv |-> 2*n,
         vertices |-> <<"extrude.vertices", polygon, height>>,
         faces |-> [j \in 1..(2*n + 2*(n - 2)) |->
             IF j <= n THEN << j - 1, nxt(j - 1), n + (j - 1) >>
             ELSE IF j <= 2*n
                  THEN << nxt(j - n - 1), n + nxt(j - n - 1), n + (j - n - 1) >>
             ELSE IF j <= 2*n + (n - 2)
                  THEN << 0, j - 2*n + 1, j - 2*n >>
             ELSE << n, n + (j - 3*n + 2), n + (j - 3*n + 2) + 1 >>],
         face_normals |-> <<"extrude.face_normals", polygon, height>> ]

\* Trimesh.apply_transform(matrix): refuses a matrix that is not (4,4)
apply_transform(mesh, matrix) ==
    IF ~is_shape(matrix, <<4, 4>>)
    THEN [err |-> "ValueError: transform", mesh |-> mesh]
    ELSE [err |-> "none",
          mesh |-> [mesh EXCEPT
              !.vertices = <<"apply_transform", matrix.v, mesh.vertices>>,
              !.face_normals = <<"apply_transform", matrix.v,
                                 mesh.face_normals>>]]

\* --------------------------------------------------------------- data store
Keys == {"height", "radius", "transform", "sections", "center",
         "box_extents", "box_transform",
         "extrude_polygon", "extrude_transform", "extrude_height"}

\* a Python scalar, as returned to the caller
ScalarVal(n) == [set |-> TRUE, shape |-> <<>>, v |-> <<n>>]

\* util.DataStore after clear(): every key reads None
EmptyStore == [k \in Keys |-> NoneVal]
\* DataStore.__getitem__: the stored array, None for a missing key
DataStore_getitem(d, key) == d[key]
\* DataStore.__setitem__: values are stored as arrays, a scalar as an array
\* of length 1
DataStore_setitem(d, key, value) ==
    [d EXCEPT ![key] = IF value.set /\ value.shape = <<>>
                       THEN Arr1(value.v) ELSE value]

\* -------------------------------------------------------------------- cache
Fields == {"vertices", "faces", "face_normals"}

EmptyCache(d) ==
    [id |-> d, vertices |-> NoneVal, faces |-> NoneVal,
     face_normals |-> NoneVal, volume |-> NoneVal]
\* util.Cache.verify: the cache is keyed to the contents of the data store
\* and emptied when they are no longer those it was filled for
Cache_verify(c, d) == IF c.id = d THEN c ELSE EmptyCache(d)
Cache_getitem(c, d, key) == Cache_verify(c, d)[key]
Cache_setitem(c, d, key, value) == [Cache_verify(c, d) EXCEPT ![key] = value]

\* ----------------------------------------------------------- scalar inputs
\* values a caller may pass where a number is expected
Num(n) == [ty |-> "float", n |-> n]
Str(n) == [ty |-> "str", n |-> n]
NoneArg == [ty |-> "None", n |-> 0]
\* float(value): a number or a numeric string converts, None does not
float(value) ==
    IF value.ty \in {"float", "int", "str"}
    THEN [err |-> "none", n |-> value.n]
    ELSE [err |-> "TypeError: float", n |-> 0]

\* result of a call that may raise: the error, the store, the value returned
Raise(e, d) == [err |-> e, data |-> d, val |-> NoneVal]
Return(d, val) == [err |-> "none", data |-> d, val |-> val]

\* ---------------------------------------------------------------------- Box
box_transform(d) ==
    LET stored == DataStore_getitem(d, "box_transform")
    IN  IF is_shape(stored, <<4, 4>>) THEN stored.v ELSE eye4

box_extents(d) ==
    LET stored == DataStore_getitem(d, "box_extents")
    IN  IF is_shape(stored, <<3>>) THEN stored.v ELSE ones3

box_center(d) == TranslationColumn(box_transform(d))

\* values: a 1-D array
box_extents_setter(d, values) ==
    Return(DataStore_setitem(d, "box_extents", Arr1(values)), NoneVal)

\* mutant: the matrix is stored before its shape is tested
box_transform_setter_late(d, matrix) ==
    IF matrix.shape # <<4, 4>>
    THEN Raise("ValueError: Matrix must be (4,4)!",
               DataStore_setitem(d, "box_transform", matrix))
    ELSE Return(DataStore_setitem(d, "box_transform", matrix), NoneVal)

\* matrix: a 2-D array
box_transform_setter(d, matrix) ==
    IF matrix.shape # <<4, 4>>
    THEN Raise("ValueError: Matrix must be (4,4)!", d)
    ELSE Return(DataStore_setitem(d, "box_transform", matrix), NoneVal)

\* mutant: the stored transform is replaced by a translation-only matrix
box_center_setter_only(d, values) ==
    LET col == IF Len(values) = 1 THEN << values[1], values[1], values[1] >>
               ELSE values
        moved == [i \in 1..4 |-> [j \in 1..4 |->
                     IF i <= 3 /\ j = 4 THEN col[i] ELSE eye4[i][j]]]
    IN  IF Len(values) \notin {1, 3}
        THEN Raise("ValueError: broadcast", d)
        ELSE Return(DataStore_setitem(d, "box_transform", Arr2(moved)),
                    NoneVal)

\* transform[0:3,3] = values broadcasts a length 1 array and refuses any
\* length other than 1 and 3
box_center_setter(d, values) ==
    LET transform == box_transform(d)
        col == IF Len(values) = 1 THEN << values[1], values[1], values[1] >>
               ELSE values
        moved == [i \in 1..4 |-> [j \in 1..4 |->
                     IF i <= 3 /\ j = 4 THEN col[i] ELSE transform[i][j]]]
    IN  IF Len(values) \notin {1, 3}
        THEN Raise("ValueError: broadcast", d)
        ELSE Return(DataStore_setitem(d, "box_transform", Arr2(moved)),
                    NoneVal)

Box_is_oriented(d) == RotationBlock(box_transform(d)) # eye3

\* result of _create_mesh: the error raised, if any, and the cache after it
Created(c, d, vertices, faces, face_normals) ==
    [err |-> "none",
     cache |-> Cache_setitem(
                 Cache_setitem(
                   Cache_setitem(c, d, "vertices", vertices),
                   d, "faces", faces),
                 d, "face_normals", face_normals)]
NotCreated(e, c) == [err |-> e, cache |-> c]

\* mutant: the normals of the unit box are cached as they are, not rotated
Box_create_mesh_unrotated(d, c) ==
    LET vertices == transform_points(
                        [i \in 1..Len(UnitBoxVertices) |->
                            Mul3(UnitBoxVertices[i], box_extents(d))],
                        box_transform(d))
        normals == UnitBoxNormals
        aligned == windings_aligned(Triangle(vertices, UnitBoxFaces[1]),
                                    normals[1])
        faces == IF ~aligned THEN fliplr(UnitBoxFaces) ELSE UnitBoxFaces
    IN  Created(c, d, ArrN3(vertices), ArrN3(faces), ArrN3(normals))

\* mutant: the normals are transformed as points are, translation included
Box_create_mesh_moved_normals(d, c) ==
    LET vertices == transform_points(
                        [i \in 1..Len(UnitBoxVertices) |->
                            Mul3(UnitBoxVertices[i], box_extents(d))],
                        box_transform(d))
        normals == [j \in 1..Len(UnitBoxNormals) |->
                       Add3(MatVec3(RotationBlock(box_transform(d)),
                                    UnitBoxNormals[j]),
                            box_center(d))]
        aligned == windings_aligned(Triangle(vertices, UnitBoxFaces[1]),
                                    normals[1])
        faces == IF ~aligned THEN fliplr(UnitBoxFaces) ELSE UnitBoxFaces
    IN  Created(c, d, ArrN3(vertices), ArrN3(faces), ArrN3(normals))

Box_create_mesh(d, c) ==
    LET vertices == transform_points(
                        [i \in 1..Len(UnitBoxVertices) |->
                            Mul3(UnitBoxVertices[i], box_extents(d))],
                        box_transform(d))
        normals == [j \in 1..Len(UnitBoxNormals) |->
                       MatVec3(RotationBlock(box_transform(d)),
                               UnitBoxNormals[j])]
        aligned == windings_aligned(Triangle(vertices, UnitBoxFaces[1]),
                                    normals[1])
        faces == IF ~aligned THEN fliplr(UnitBoxFaces) ELSE UnitBoxFaces
    IN  Created(c, d, ArrN3(vertices), ArrN3(faces), ArrN3(normals))

\* ------------------------------------------------------------------- Sphere
sphere_center(d) ==
    LET stored == DataStore_getitem(d, "center")
    IN  IF ~stored.set THEN Arr1(zeros3) ELSE stored

sphere_radius(d) ==
    LET stored == DataStore_getitem(d, "radius")
    IN  IF ~stored.set THEN 1 ELSE stored.v[1]

sphere_center_setter(d, values) ==
    Return(DataStore_setitem(d, "center", Arr1(values)), NoneVal)

sphere_radius_setter(d, value) ==
    IF float(value).err # "none" THEN Raise(float(value).err, d)
    ELSE Return(DataStore_setitem(d, "radius", ScalarVal(float(value).n)),
                NoneVal)

\* the unit sphere of an object: the icosphere for a Sphere, nothing for the
\* other classes
UnitSphere ==
    [vertices |-> UnitSphereVertices, faces |-> UnitSphereFaces,
     face_normals |-> UnitSphereNormals]
NoUnitSphere == [vertices |-> << >>, faces |-> << >>, face_normals |-> << >>]
\* result of Sphere._create_mesh: as Created and NotCreated, with the unit
\* sphere as the call leaves it
WithUnit(r, ico) == [err |-> r.err, cache |-> r.cache, unit_sphere |-> ico]

\* mutant: faces and face_normals are put in the cache before the vertices
\* are computed
Sphere_create_mesh_faces_first(d, c) ==
    LET ico == unit_sphere
        center == sphere_center(d).v
        col == IF Len(center) = 1 THEN << center[1], center[1], center[1] >>
               ELSE center
        vertices == [i \in 1..Len(ico.vertices) |->
                        Add3(Scale3(sphere_radius(d), ico.vertices[i]),
                             Twice(col))]
    IN  IF Len(center) \notin {1, 3}
        THEN WithUnit(NotCreated("ValueError: broadcast",
                        Cache_setitem(
                          Cache_setitem(c, d, "faces", ArrN3(ico.faces)),
                          d, "face_normals", ArrN3(ico.face_normals))), ico)
        ELSE WithUnit(Created(c, d, ArrN3(vertices), ArrN3(ico.faces),
                              ArrN3(ico.face_normals)), ico)

\* mutant: the vertices of the unit sphere are scaled in place
Sphere_create_mesh_in_place(d, c) ==
    LET ico == unit_sphere
        center == sphere_center(d).v
        col == IF Len(center) = 1 THEN << center[1], center[1], center[1] >>
               ELSE center
        scaled == [i \in 1..Len(ico.vertices) |->
                      Scale3(sphere_radius(d), ico.vertices[i])]
        vertices == [i \in 1..Len(ico.vertices) |->
                        Add3(scaled[i], Twice(col))]
    IN  IF Len(center) \notin {1, 3}
        THEN WithUnit(NotCreated("ValueError: broadcast", c),
                      [ico EXCEPT !.vertices = scaled])
        ELSE WithUnit(Created(c, d, ArrN3(vertices), ArrN3(ico.faces),
                              ArrN3(ico.face_normals)),
                      [ico EXCEPT !.vertices = scaled])

\* (ico.vertices * radius) + center: an (n,3) array plus a 1-D array
\* broadcasts for lengths 3 and 1 and raises for any other length; the
\* product is a new array, faces and face_normals are those of the unit
\* sphere
Sphere_create_mesh(d, c) ==
    LET ico == unit_sphere
        center == sphere_center(d).v
        col == IF Len(center) = 1 THEN << center[1], center[1], center[1] >>
               ELSE center
        vertices == [i \in 1..Len(ico.vertices) |->
                        Add3(Scale3(sphere_radius(d), ico.vertices[i]),
                             Twice(col))]
    IN  IF Len(center) \notin {1, 3}
        THEN WithUnit(NotCreated("ValueError: broadcast", c), ico)
        ELSE WithUnit(Created(c, d, ArrN3(vertices), ArrN3(ico.faces),
                              ArrN3(ico.face_normals)), ico)

\* ---------------------------------------------------------------- Extrusion
extrude_transform(d) ==
    LET stored == DataStore_getitem(d, "extrude_transform")
    IN  IF stored.shape = <<4, 4>> THEN stored.v ELSE eye4

extrude_transform_setter(d, matrix) ==
    IF matrix.shape # <<4, 4>>
    THEN Raise("ValueError: Matrix must be (4,4)!", d)
    ELSE Return(DataStore_setitem(d, "extrude_transform", matrix), NoneVal)

\* mutant: a missing height reads as 1.0, as a missing sphere radius does
extrude_height_default(d) ==
    LET stored == DataStore_getitem(d, "extrude_height")
    IN  IF ~stored.set THEN Return(d, ScalarVal(1))
        ELSE Return(d, ScalarVal(stored.v[1]))

extrude_height(d) ==
    LET stored == DataStore_getitem(d, "extrude_height")
    IN  IF ~stored.set THEN Raise("ValueError: extrude height not specified!", d)
        ELSE Return(d, ScalarVal(stored.v[1]))

extrude_height_setter(d, value) ==
    IF float(value).err # "none" THEN Raise(float(value).err, d)
    ELSE Return(DataStore_setitem(d, "extrude_height",
                                  ScalarVal(float(value).n)), NoneVal)

extrude_polygon(d) ==
    LET stored == DataStore_getitem(d, "extrude_polygon")
    IN  IF ~stored.set
        THEN Raise("ValueError: extrude polygon not specified!", d)
        ELSE Return(d, ScalarVal(stored.v[1]))

\* creation.validate_polygon(value): the polygon, or an error for a curve
\* that is no valid polygon
validate_polygon(value) ==
    IF value \in {"triangle", "square"}
    THEN [err |-> "none", polygon |-> value]
    ELSE [err |-> "ValueError: polygon", polygon |-> value]

extrude_polygon_setter(d, value) ==
    IF validate_polygon(value).err # "none"
    THEN Raise(validate_polygon(value).err, d)
    ELSE Return(DataStore_setitem(d, "extrude_polygon",
                    ScalarVal(validate_polygon(value).polygon)), NoneVal)

extrude_direction(d) == MatVec3(RotationBlock(extrude_transform(d)), <<0, 0, 1>>)

\* np.eye(4) with translation[2,3] = distance
ZTranslation(distance) ==
    [i \in 1..4 |-> [j \in 1..4 |->
        IF i = 3 /\ j = 4 THEN distance ELSE eye4[i][j]]]

\* mutant: the distance is added to entry [2,3] of the transform
slide_entry(d, distance) ==
    IF float(distance).err # "none" THEN Raise(float(distance).err, d)
    ELSE extrude_transform_setter(d,
             Arr2([extrude_transform(d) EXCEPT
                      ![3][4] = extrude_transform(d)[3][4]
                                    + float(distance).n]))

\* mutant: the operands of np.dot exchanged, a slide along world Z
slide_world(d, distance) ==
    IF float(distance).err # "none" THEN Raise(float(distance).err, d)
    ELSE extrude_transform_setter(d,
             Arr2(MatMul4(ZTranslation(float(distance).n),
                          extrude_transform(d))))

slide(d, distance) ==
    IF float(distance).err # "none" THEN Raise(float(distance).err, d)
    ELSE extrude_transform_setter(d,
             Arr2(MatMul4(extrude_transform(d),
                          ZTranslation(float(distance).n))))

Extrusion_create_mesh(d, c) ==
    IF extrude_polygon(d).err # "none"
    THEN NotCreated(extrude_polygon(d).err, c)
    ELSE IF extrude_height(d).err # "none"
    THEN NotCreated(extrude_height(d).err, c)
    ELSE LET made == extrude_polygon_mesh(extrude_polygon(d).val.v[1],
                                          extrude_height(d).val.v[1])
             moved == apply_transform(made, Arr2(extrude_transform(d)))
         IN  IF moved.err # "none" THEN NotCreated(moved.err, c)
             ELSE Created(c, d,
                          Term(made.nv, moved.mesh.vertices),
                          ArrN3(moved.mesh.faces),
                          Term(Len(made.faces), moved.mesh.face_normals))

\* ----------------------------------------------------------------- Cylinder
DefaultSections == 32
defaults ==
    [height |-> ScalarVal(1), radius |-> ScalarVal(1),
     transform |-> Arr2(eye4), sections |-> ScalarVal(DefaultSections)]
DefaultKeys == DOMAIN defaults

\* attribute names that contain an underscore
UnderscoreNames == {"foo_bar"}
HasUnderscore(key) == key \in UnderscoreNames

\* util.convert_like(item, like): the item as the type of like, a stored
\* array of length 1 as a scalar when like is a scalar
convert_like(item, like) ==
    IF like.shape = <<>> /\ item.set /\ item.shape = <<1>>
    THEN ScalarVal(item.v[1]) ELSE item

NoAttrs == [k \in UnderscoreNames |-> NoneVal]

\* _PrimitiveAttributes(data, defaults, kwargs); kwargs maps the keyword
\* arguments given to their values
PrimitiveAttributes_init(d, kwargs) ==
    LET updated == [k \in Keys |->
                       IF k \in DefaultKeys
                       THEN DataStore_setitem(d, k, defaults[k])[k]
                       ELSE d[k]]
    IN  [k \in Keys |->
            IF k \in DOMAIN kwargs /\ k \in DefaultKeys
            THEN DataStore_setitem(updated, k,
                     convert_like(kwargs[k], defaults[k]))[k]
            ELSE updated[k]]

\* result of an attribute access: error, store, instance attributes, value
AttrResult(e, d, a, val) == [err |-> e, data |-> d, attrs |-> a, val |-> val]

\* __getattr__ runs only when the object has no attribute of that name
PrimitiveAttributes_getattr(d, a, key) ==
    IF HasUnderscore(key) /\ a[key].set
    THEN AttrResult("none", d, a, a[key])
    ELSE IF HasUnderscore(key)
    THEN AttrResult("AttributeError", d, a, NoneVal)
    ELSE IF key \in DefaultKeys
    THEN AttrResult("none", d, a,
                    convert_like(DataStore_getitem(d, key), defaults[key]))
    ELSE AttrResult("AttributeError", d, a, NoneVal)

PrimitiveAttributes_setattr(d, a, key, value) ==
    IF HasUnderscore(key)
    THEN AttrResult("none", d, [a EXCEPT ![key] = value], NoneVal)
    ELSE IF key \in DefaultKeys
    THEN AttrResult("none", DataStore_setitem(d, key, value), a, NoneVal)
    ELSE AttrResult("ValueError: Only default attributes can be set!",
                    d, a, NoneVal)

Cylinder_create_mesh(d, a, c) ==
    LET radius == PrimitiveAttributes_getattr(d, a, "radius").val.v[1]
        height == PrimitiveAttributes_getattr(d, a, "height").val.v[1]
        sections == PrimitiveAttributes_getattr(d, a, "sections").val.v[1]
        made == cylinder(radius, height, sections)
        moved == apply_transform(made,
                     PrimitiveAttributes_getattr(d, a, "transform").val)
    IN  IF moved.err # "none" THEN NotCreated(moved.err, c)
        ELSE Created(c, d,
                     Term(made.nv, moved.mesh.vertices),
                     ArrN3(moved.mesh.faces),
                     Term(Len(made.faces), moved.mesh.face_normals))

\* _Primitive._create_mesh as overridden by the object's class
\* "_Primitive" is the base class, which has no synthesis of its own
Kinds == {"Cylinder", "Sphere", "Box", "Extrusion", "_Primitive"}
create_mesh(k, d, a, c) ==
    IF k = "Cylinder" THEN Cylinder_create_mesh(d, a, c)
    ELSE IF k = "Sphere" THEN Sphere_create_mesh(d, c)
    ELSE IF k = "Box" THEN Box_create_mesh(d, c)
    ELSE IF k = "Extrusion" THEN Extrusion_create_mesh(d, c)
    ELSE NotCreated("ValueError: Primitive doesn't define mesh creation!", c)

\* ------------------------------------------------------------------- volume
\* util.cache_decorator: the value kept in the cache under the property's
\* name when there is one for the store as it is, else the value computed,
\* which is kept
cache_decorator(c, d, name, value) ==
    LET stored == Cache_getitem(c, d, name)
    IN  IF stored.set THEN [cache |-> Cache_verify(c, d), val |-> stored]
        ELSE [cache |-> Cache_setitem(c, d, name, value), val |-> value]

\* mutant: the radius squared
Sphere_volume_square(d) == 4 * (sphere_radius(d) * sphere_radius(d))

\* Sphere.volume, (4 pi r^3) / 3, carried as a multiple of pi/3
Sphere_volume(d) ==
    4 * (sphere_radius(d) * sphere_radius(d) * sphere_radius(d))

\* Box.volume, float(np.product(self.box_extents))
Box_volume(d) == box_extents(d)[1] * box_extents(d)[2] * box_extents(d)[3]

\* the volume property of Sphere and Box
volume(k, d, c) ==
    cache_decorator(c, d, "volume",
                    ScalarVal(IF k = "Sphere" THEN Sphere_volume(d)
                              ELSE Box_volume(d)))

\* -------------------------------------------------------------- constructors
\* result of a constructor: the error raised, if any, the store and the
\* cache of the new object; kwargs maps the keyword arguments given to their
\* values
Constructing(r) ==
    [err |-> r.err, data |-> r.data,
     cache |-> Cache_verify(EmptyCache(EmptyStore), r.data)]
\* _Primitive.__init__: the store is cleared
Primitive_init == Return(EmptyStore, NoneVal)

\* mutant: the mesh is synthesized when the object is constructed
Box_init_eager(kwargs) ==
    LET r1 == IF "box_extents" \in DOMAIN kwargs
              THEN box_extents_setter(Primitive_init.data, kwargs.box_extents)
              ELSE Primitive_init
        r2 == IF r1.err = "none" /\ "box_transform" \in DOMAIN kwargs
              THEN box_transform_setter(r1.data, kwargs.box_transform)
              ELSE r1
        r3 == IF r2.err = "none" /\ "box_center" \in DOMAIN kwargs
              THEN box_center_setter(r2.data, kwargs.box_center)
              ELSE r2
    IN  [Constructing(r3) EXCEPT
            !.cache = Box_create_mesh(r3.data, EmptyCache(r3.data)).cache]

\* mutant: box_center is applied before box_transform
Box_init_center_first(kwargs) ==
    LET r1 == IF "box_extents" \in DOMAIN kwargs
              THEN box_extents_setter(Primitive_init.data, kwargs.box_extents)
              ELSE Primitive_init
        r2 == IF r1.err = "none" /\ "box_center" \in DOMAIN kwargs
              THEN box_center_setter(r1.data, kwargs.box_center)
              ELSE r1
        r3 == IF r2.err = "none" /\ "box_transform" \in DOMAIN kwargs
              THEN box_transform_setter(r2.data, kwargs.box_transform)
              ELSE r2
    IN  Constructing(r3)

\* Box.__init__: box_extents, box_transform and box_center are assigned, in
\* that order, when given; a setter that raises ends the construction
Box_init(kwargs) ==
    LET r1 == IF "box_extents" \in DOMAIN kwargs
              THEN box_extents_setter(Primitive_init.data, kwargs.box_extents)
              ELSE Primitive_init
        r2 == IF r1.err = "none" /\ "box_transform" \in DOMAIN kwargs
              THEN box_transform_setter(r1.data, kwargs.box_transform)
              ELSE r1
        r3 == IF r2.err = "none" /\ "box_center" \in DOMAIN kwargs
              THEN box_center_setter(r2.data, kwargs.box_center)
              ELSE r2
    IN  Constructing(r3)

\* Sphere.__init__: sphere_radius, then sphere_center
Sphere_init(kwargs) ==
    LET r1 == IF "sphere_radius" \in DOMAIN kwargs
              THEN sphere_radius_setter(Primitive_init.data,
                                        kwargs.sphere_radius)
              ELSE Primitive_init
        r2 == IF r1.err = "none" /\ "sphere_center" \in DOMAIN kwargs
              THEN sphere_center_setter(r1.data, kwargs.sphere_center)
              ELSE r1
    IN  Constructing(r2)

\* Extrusion.__init__: extrude_polygon, extrude_transform, extrude_height
Extrusion_init(kwargs) ==
    LET r1 == IF "extrude_polygon" \in DOMAIN kwargs
              THEN extrude_polygon_setter(Primitive_init.data,
                                          kwargs.extrude_polygon)
              ELSE Primitive_init
        r2 == IF r1.err = "none" /\ "extrude_transform" \in DOMAIN kwargs
              THEN extrude_transform_setter(r1.data, kwargs.extrude_transform)
              ELSE r1
        r3 == IF r2.err = "none" /\ "extrude_height" \in DOMAIN kwargs
              THEN extrude_height_setter(r2.data, kwargs.extrude_height)
              ELSE r2
    IN  Constructing(r3)

\* Cylinder.__init__: the attributes object fills the store
Cylinder_init(kwargs) ==
    Constructing(Return(PrimitiveAttributes_init(Primitive_init.data, kwargs),
                        NoneVal))

\* the constructor of the object's class
construct(k, kwargs) ==
    IF k = "Cylinder" THEN Cylinder_init(kwargs)
    ELSE IF k = "Sphere" THEN Sphere_init(kwargs)
    ELSE IF k = "Box" THEN Box_init(kwargs)
    ELSE IF k = "Extrusion" THEN Extrusion_init(kwargs)
    ELSE Constructing(Primitive_init)

\* ------------------------------------------------------------ derived fields
\* result of reading a derived field: error, cache, value returned, whether
\* _create_mesh was called
Got(e, c, val, ran) == [err |-> e, cache |-> c, val |-> val, ran |-> ran]

\* mutant: after _create_mesh the value read before it is returned
derived_getter_stale(k, d, a, c, f) ==
    LET stored == Cache_getitem(c, d, f)
        made == create_mesh(k, d, a, Cache_verify(c, d))
    IN  IF is_shape(stored, <<-1, 3>>)
        THEN Got("none", Cache_verify(c, d), stored, FALSE)
        ELSE IF made.err # "none"
        THEN Got(made.err, made.cache, NoneVal, TRUE)
        ELSE Got("none", made.cache, stored, TRUE)

\* mutant: the cached array is not looked at, every read synthesizes
derived_getter_always(k, d, a, c, f) ==
    LET made == create_mesh(k, d, a, Cache_verify(c, d))
    IN  IF made.err # "none"
        THEN Got(made.err, made.cache, NoneVal, TRUE)
        ELSE Got("none", made.cache, Cache_getitem(made.cache, d, f), TRUE)

\* the getters of faces, vertices and face_normals
derived_getter(k, d, a, c, f) ==
    LET stored == Cache_getitem(c, d, f)
        made == create_mesh(k, d, a, Cache_verify(c, d))
    IN  IF is_shape(stored, <<-1, 3>>)
        THEN Got("none", Cache_verify(c, d), stored, FALSE)
        ELSE IF made.err # "none"
        THEN Got(made.err, made.cache, NoneVal, TRUE)
        ELSE Got("none", made.cache, Cache_getitem(made.cache, d, f), TRUE)

\* mutant: the assigned value is kept, as Trimesh keeps it
derived_setter_stores(c, d, f, values) ==
    [cache |-> Cache_setitem(c, d, f, values), data |-> d,
     warn |-> (f = "faces" \/ values.set)]

\* the setters of faces, vertices and face_normals: a warning at most; faces
\* warns for any value, the other two for any value but None
derived_setter(c, d, f, values) ==
    [cache |-> c, data |-> d, warn |-> (f = "faces" \/ values.set)]

\* ------------------------------------------------------------------ to_mesh
\* no mesh returned yet
NoMesh ==
    [set |-> FALSE, vertices |-> NoneVal, faces |-> NoneVal,
     face_normals |-> NoneVal, shares |-> {}]
\* Trimesh(vertices, faces, face_normals): a plain mesh holding its own
\* arrays; shares names the arrays that are the objects held by the
\* primitive's cache
Trimesh_init(vertices, faces, face_normals) ==
    [set |-> TRUE, vertices |-> vertices, faces |-> faces,
     face_normals |-> face_normals, shares |-> {}]

Meshed(e, c, m, ran) == [err |-> e, cache |-> c, mesh |-> m, ran |-> ran]

\* mutant: the primitive itself is returned, its arrays those of the cache
to_mesh_self(v, f, n) ==
    IF v.err # "none" THEN Meshed(v.err, v.cache, NoMesh, v.ran)
    ELSE IF f.err # "none" THEN Meshed(f.err, f.cache, NoMesh, TRUE)
    ELSE IF n.err # "none" THEN Meshed(n.err, n.cache, NoMesh, TRUE)
    ELSE Meshed("none", n.cache,
                [Trimesh_init(v.val, f.val, n.val) EXCEPT !.shares = Fields],
                v.ran \/ f.ran \/ n.ran)

\* _Primitive.to_mesh, v, f and n the outcomes of its reads of vertices,
\* faces and face_normals: the first read that raises ends the call, else
\* the three arrays are handed to Trimesh
to_mesh(v, f, n) ==
    IF v.err # "none" THEN Meshed(v.err, v.cache, NoMesh, v.ran)
    ELSE IF f.err # "none" THEN Meshed(f.err, f.cache, NoMesh, TRUE)
    ELSE IF n.err # "none" THEN Meshed(n.err, n.cache, NoMesh, TRUE)
    ELSE Meshed("none", n.cache, Trimesh_init(v.val, f.val, n.val),
                v.ran \/ f.ran \/ n.ran)

\* what an in-place edit leaves in an array of the returned mesh
Edited == ArrN3(<< <<9, 9, 9>> >>)

\* ------------------------------------------------------------------- inputs
RotZ90 == << <<0,-1,0,0>>, <<1,0,0,0>>, <<0,0,1,0>>, <<0,0,0,1>> >>
MirrorX == << <<-1,0,0,0>>, <<0,1,0,0>>, <<0,0,1,0>>, <<0,0,0,1>> >>
RotX90Moved == << <<1,0,0,1>>, <<0,0,-1,2>>, <<0,1,0,3>>, <<0,0,0,1>> >>
Rows34 == << <<1,0,0,0>>, <<0,1,0,0>>, <<0,0,1,0>> >>

BoxMatrixInputs == {Arr2(RotZ90), Arr2(MirrorX), Arr2(Rows34)}
ExtrudeMatrixInputs == {Arr2(RotX90Moved), Arr2(eye3)}
CylinderMatrixInputs == {Arr2(RotZ90), Arr2(eye3)}
ExtentInputs == {<<2,3,4>>, <<-1,1,1>>, <<1,-1,1>>, <<1,1,-1>>, <<1,2>>}
CenterInputs == {<<1,2,3>>, <<5>>, <<1,2>>}
RadiusInputs == {Num(2), Num(3), NoneArg}
HeightInputs == {Num(5), Str(2), NoneArg}
DistanceInputs == {Num(3), Num(2), NoneArg}
PolygonInputs == {"triangle", "square", "bowtie"}
DerivedInputs == {NoneVal, ArrN3(<< <<9, 9, 9>> >>)}
AttrKeyInputs == DefaultKeys \cup UnderscoreNames \cup {"color"}
AttrValueInputs(key) ==
    IF key = "transform" THEN CylinderMatrixInputs
    ELSE IF key = "sections" THEN {ScalarVal(3)}
    ELSE {ScalarVal(2)}

\* keyword arguments of the constructors
Moved(R, t) ==
    [i \in 1..4 |-> [j \in 1..4 |->
        IF i = 4 THEN eye4[i][j] ELSE IF j = 4 THEN t[i] ELSE R[i][j]]]
\* the 48 signed permutation matrices: the rotations and reflections that
\* map the axes to the axes
SignedPermutations ==
    {[i \in 1..3 |-> [j \in 1..3 |-> IF j = p[i] THEN s[i] ELSE 0]] :
        p \in {q \in [1..3 -> 1..3] : {q[1], q[2], q[3]} = 1..3},
        s \in [1..3 -> {-1, 1}]}
BoxTransformKwargs ==
    {Arr2(Moved(R, zeros3)) : R \in SignedPermutations}
        \cup {Arr2(Moved(RotationBlock(RotZ90), <<7, 8, 9>>))}
Given(kwargs, names) == [k \in names |-> kwargs[k]]
Kwargs(k) ==
    IF k = "Box"
    THEN {Given(kw, S) :
            kw \in [box_extents : {<<2, 3, 4>>},
                    box_transform : BoxTransformKwargs,
                    box_center : {<<1, 2, 3>>}],
            S \in SUBSET {"box_extents", "box_transform", "box_center"}}
    ELSE IF k = "Sphere"
    THEN {Given(kw, S) :
            kw \in [sphere_radius : {Num(2)}, sphere_center : {<<1, 2, 3>>}],
            S \in SUBSET {"sphere_radius", "sphere_center"}}
    ELSE IF k = "Extrusion"
    THEN {Given(kw, S) :
            kw \in [extrude_polygon : {"triangle"},
                    extrude_transform : {Arr2(RotX90Moved)},
                    extrude_height : {Num(5)}],
            S \in SUBSET {"extrude_polygon", "extrude_transform",
                          "extrude_height"}}
    ELSE IF k = "Cylinder"
    THEN {Given([radius |-> ScalarVal(2)], S) : S \in SUBSET {"radius"}}
    ELSE {<<>>}

\* --------------------------------------------------------------------- state
Ret(op, arg, err, val, warn) ==
    [op |-> op, arg |-> arg, err |-> err, val |-> val, warn |-> warn]
NoReads == [f \in Fields |-> NoneVal]

\* the store after __init__ with no keyword arguments
Constructed(k) ==
    IF k = "Cylinder" THEN PrimitiveAttributes_init(EmptyStore, <<>>)
    ELSE EmptyStore

Init ==
    /\ kind \in Kinds
    /\ data = Constructed(kind)
    /\ attrs = NoAttrs
    /\ cache = EmptyCache(EmptyStore)
    /\ ret = Ret("__init__", NoneVal, "none", NoneVal, FALSE)
    /\ runs = 0
    /\ okRuns = 0
    /\ lastRead = NoReads
    /\ given = NoneArg
    /\ slideBase = eye4
    /\ slideSum = 0
    /\ slideCount = 0
    /\ snapshot = NoMesh
    /\ unit_sphere = IF kind = "Sphere" THEN UnitSphere ELSE NoUnitSphere

\* the object as its constructor leaves it, for any keyword arguments the
\* constructor accepts
InitBuilt ==
    /\ kind \in Kinds
    /\ \E kwargs \in Kwargs(kind) :
          /\ construct(kind, kwargs).err = "none"
          /\ data = construct(kind, kwargs).data
          /\ cache = construct(kind, kwargs).cache
          /\ ret = Ret("__init__", kwargs, "none", NoneVal, FALSE)
          /\ slideBase = IF "extrude_transform" \in DOMAIN kwargs
                         THEN kwargs.extrude_transform.v ELSE eye4
          /\ given = IF "extrude_height" \in DOMAIN kwargs
                     THEN kwargs.extrude_height ELSE NoneArg
    /\ attrs = NoAttrs
    /\ runs = 0
    /\ okRuns = 0
    /\ lastRead = NoReads
    /\ slideSum = 0
    /\ slideCount = 0
    /\ snapshot = NoMesh
    /\ unit_sphere = IF kind = "Sphere" THEN UnitSphere ELSE NoUnitSphere

\* a parameter write that returned starts a new period of reads; one that
\* raised leaves the counters alone
Written(r) ==
    /\ data' = r.data
    /\ cache' = Cache_verify(cache, r.data)
    /\ IF r.err = "none"
       THEN runs' = 0 /\ okRuns' = 0 /\ lastRead' = NoReads
       ELSE UNCHANGED <<runs, okRuns, lastRead>>

UnchangedSlide == UNCHANGED <<slideBase, slideSum, slideCount>>

\* self._unit_sphere after a read of a derived field: as _create_mesh leaves
\* it when the read called it, untouched otherwise
UnitAfter(ran) ==
    IF kind = "Sphere" /\ ran
    THEN create_mesh(kind, data, attrs, Cache_verify(cache, data)).unit_sphere
    ELSE unit_sphere

\* -------------------------------------------------------------------- actions
ReadField(f) ==
    LET got == derived_getter(kind, data, attrs, cache, f)
    IN  /\ (got.ran => runs < MaxRuns)
        /\ cache' = got.cache
        /\ ret' = Ret(f, NoneVal, got.err, got.val, FALSE)
        /\ runs' = IF got.ran THEN runs + 1 ELSE runs
        /\ okRuns' = IF got.ran /\ got.err = "none" THEN okRuns + 1 ELSE okRuns
        /\ lastRead' = IF got.err = "none"
                       THEN [lastRead EXCEPT ![f] = got.val] ELSE lastRead
        /\ unit_sphere' = UnitAfter(got.ran)
        /\ UNCHANGED <<kind, data, attrs, given, snapshot>>
        /\ UnchangedSlide

WriteField(f, values) ==
    LET done == derived_setter(cache, data, f, values)
    IN  /\ cache' = done.cache
        /\ data' = done.data
        /\ ret' = Ret(f \o ".setter", values, "none", NoneVal, done.warn)
        /\ UNCHANGED <<kind, attrs, runs, okRuns, lastRead, given, snapshot,
                       unit_sphere>>
        /\ UnchangedSlide

\* a call of a parameter setter, r its result
SetterCall(op, arg, r) ==
    /\ Written(r)
    /\ ret' = Ret(op, arg, r.err, r.val, FALSE)
    /\ UNCHANGED <<kind, attrs, snapshot, unit_sphere>>

\* a call of a parameter getter: nothing but the returned value changes
GetterCall(op, err, val) ==
    /\ ret' = Ret(op, NoneVal, err, val, FALSE)
    /\ UNCHANGED <<kind, data, attrs, cache, runs, okRuns, lastRead, given,
                   snapshot, unit_sphere>>
    /\ UnchangedSlide

SetBoxExtents(values) ==
    /\ kind = "Box"
    /\ SetterCall("box_extents.setter", values, box_extents_setter(data, values))
    /\ UNCHANGED given
    /\ UnchangedSlide

SetBoxTransform(matrix) ==
    /\ kind = "Box"
    /\ SetterCall("box_transform.setter", matrix,
                  box_transform_setter(data, matrix))
    /\ UNCHANGED given
    /\ UnchangedSlide

SetBoxCenter(values) ==
    /\ kind = "Box"
    /\ SetterCall("box_center.setter", values, box_center_setter(data, values))
    /\ UNCHANGED given
    /\ UnchangedSlide

GetBoxExtents ==
    /\ kind = "Box"
    /\ GetterCall("box_extents", "none", Arr1(box_extents(data)))

GetBoxTransform ==
    /\ kind = "Box"
    /\ GetterCall("box_transform", "none", Arr2(box_transform(data)))

GetBoxCenter ==
    /\ kind = "Box"
    /\ GetterCall("box_center", "none", Arr1(box_center(data)))

SetSphereRadius(value) ==
    /\ kind = "Sphere"
    /\ SetterCall("sphere_radius.setter", value,
                  sphere_radius_setter(data, value))
    /\ UNCHANGED given
    /\ UnchangedSlide

SetSphereCenter(values) ==
    /\ kind = "Sphere"
    /\ SetterCall("sphere_center.setter", values,
                  sphere_center_setter(data, values))
    /\ UNCHANGED given
    /\ UnchangedSlide

GetSphereRadius ==
    /\ kind = "Sphere"
    /\ GetterCall("sphere_radius", "none", ScalarVal(sphere_radius(data)))

GetSphereCenter ==
    /\ kind = "Sphere"
    /\ GetterCall("sphere_center", "none", sphere_center(data))

SetExtrudePolygon(value) ==
    /\ kind = "Extrusion"
    /\ SetterCall("extrude_polygon.setter", value,
                  extrude_polygon_setter(data, value))
    /\ UNCHANGED given
    /\ UnchangedSlide

SetExtrudeHeight(value) ==
    LET r == extrude_height_setter(data, value)
    IN  /\ kind = "Extrusion"
        /\ SetterCall("extrude_height.setter", value, r)
        /\ given' = IF r.err = "none" THEN value ELSE given
        /\ UnchangedSlide

SetExtrudeTransform(matrix) ==
    LET r == extrude_transform_setter(data, matrix)
    IN  /\ kind = "Extrusion"
        /\ SetterCall("extrude_transform.setter", matrix, r)
        /\ IF r.err = "none"
           THEN slideBase' = matrix.v /\ slideSum' = 0 /\ slideCount' = 0
           ELSE UnchangedSlide
        /\ UNCHANGED given

Slide(distance) ==
    LET r == slide(data, distance)
    IN  /\ kind = "Extrusion"
        /\ slideCount < MaxSlides
        /\ SetterCall("slide", distance, r)
        /\ IF r.err = "none"
           THEN /\ slideSum' = slideSum + distance.n
                /\ slideCount' = slideCount + 1
                /\ UNCHANGED slideBase
           ELSE UnchangedSlide
        /\ UNCHANGED given

GetExtrudeHeight ==
    /\ kind = "Extrusion"
    /\ GetterCall("extrude_height", extrude_height(data).err,
                  extrude_height(data).val)

GetExtrudePolygon ==
    /\ kind = "Extrusion"
    /\ GetterCall("extrude_polygon", extrude_polygon(data).err,
                  extrude_polygon(data).val)

GetExtrudeTransform ==
    /\ kind = "Extrusion"
    /\ GetterCall("extrude_transform", "none", Arr2(extrude_transform(data)))

SetAttr(key, value) ==
    LET r == PrimitiveAttributes_setattr(data, attrs, key, value)
    IN  /\ kind = "Cylinder"
        /\ Written(r)
        /\ attrs' = r.attrs
        /\ ret' = Ret("primitive_data.setattr", <<key, value>>, r.err, r.val,
                      FALSE)
        /\ UNCHANGED <<kind, given, snapshot, unit_sphere>>
        /\ UnchangedSlide

GetAttr(key) ==
    LET r == PrimitiveAttributes_getattr(data, attrs, key)
    IN  /\ kind = "Cylinder"
        /\ ret' = Ret("primitive_data.getattr", <<key, NoneVal>>, r.err, r.val,
                      FALSE)
        /\ UNCHANGED <<kind, data, attrs, cache, runs, okRuns, lastRead, given,
                       snapshot, unit_sphere>>
        /\ UnchangedSlide

ReadVolume ==
    LET got == volume(kind, data, cache)
    IN  /\ kind \in {"Sphere", "Box"}
        /\ cache' = got.cache
        /\ ret' = Ret("volume", NoneVal, "none", got.val, FALSE)
        /\ UNCHANGED <<kind, data, attrs, runs, okRuns, lastRead, given,
                       snapshot, unit_sphere>>
        /\ UnchangedSlide

\* the three reads of to_mesh are made in the order of its keyword
\* arguments, each on the cache the read before it left
ToMesh ==
    \E v \in {derived_getter(kind, data, attrs, cache, "vertices")} :
    \E f \in {derived_getter(kind, data, attrs, v.cache, "faces")} :
    \E n \in {derived_getter(kind, data, attrs, f.cache, "face_normals")} :
        LET got == to_mesh(v, f, n)
        IN  /\ (got.ran => runs < MaxRuns)
            /\ cache' = got.cache
            /\ snapshot' = IF got.err = "none" THEN got.mesh ELSE snapshot
            /\ ret' = Ret("to_mesh", NoneVal, got.err, NoneVal, FALSE)
            /\ runs' = IF got.ran THEN runs + 1 ELSE runs
            /\ okRuns' = IF got.ran /\ got.err = "none"
                         THEN okRuns + 1 ELSE okRuns
            /\ lastRead' = IF got.err = "none"
                           THEN [g \in Fields |-> got.mesh[g]] ELSE lastRead
            /\ unit_sphere' = UnitAfter(got.ran)
            /\ UNCHANGED <<kind, data, attrs, given>>
            /\ UnchangedSlide

\* the caller edits, in place, an array of the mesh to_mesh returned; an
\* array that is the object the cache holds changes there as well
EditMesh(f) ==
    /\ snapshot.set
    /\ snapshot' = [snapshot EXCEPT ![f] = Edited]
    /\ cache' = IF f \in snapshot.shares
                   /\ Cache_getitem(cache, data, f) = snapshot[f]
                THEN Cache_setitem(cache, data, f, Edited)
                ELSE cache
    /\ ret' = Ret("snapshot." \o f, NoneVal, "none", NoneVal, FALSE)
    /\ UNCHANGED <<kind, data, attrs, runs, okRuns, lastRead, given,
                   unit_sphere>>
    /\ UnchangedSlide

Next ==
    \/ \E f \in Fields : ReadField(f)
    \/ \E f \in Fields, values \in DerivedInputs : WriteField(f, values)
    \/ \E values \in ExtentInputs : SetBoxExtents(values)
    \/ \E matrix \in BoxMatrixInputs : SetBoxTransform(matrix)
    \/ \E values \in CenterInputs : SetBoxCenter(values)
    \/ GetBoxExtents
    \/ GetBoxTransform
    \/ GetBoxCenter
    \/ \E value \in RadiusInputs : SetSphereRadius(value)
    \/ \E values \in CenterInputs : SetSphereCenter(values)
    \/ GetSphereRadius
    \/ GetSphereCenter
    \/ \E value \in PolygonInputs : SetExtrudePolygon(value)
    \/ \E value \in HeightInputs : SetExtrudeHeight(value)
    \/ \E matrix \in ExtrudeMatrixInputs : SetExtrudeTransform(matrix)
    \/ \E distance \in DistanceInputs : Slide(distance)
    \/ GetExtrudeHeight
    \/ GetExtrudePolygon
    \/ GetExtrudeTransform
    \/ \E key \in AttrKeyInputs :
          \E value \in AttrValueInputs(key) : SetAttr(key, value)
    \/ \E key \in AttrKeyInputs : GetAttr(key)
    \/ ReadVolume

Spec == Init /\ [][Next]_vars

\* the object with to_mesh, edits of the returned mesh, reads and one write
\* of each parameter
MeshNext ==
    \/ \E f \in Fields : ReadField(f)
    \/ ToMesh
    \/ \E f \in Fields : EditMesh(f)
    \/ SetBoxExtents(<<2, 3, 4>>)
    \/ SetBoxCenter(<<1, 2, 3>>)
    \/ SetSphereRadius(Num(2))
    \/ SetSphereCenter(<<1, 2, 3>>)
    \/ SetExtrudePolygon("triangle")
    \/ SetExtrudeHeight(Num(5))
    \/ Slide(Num(3))
    \/ SetAttr("radius", ScalarVal(2))

SpecMesh == Init /\ [][MeshNext]_vars

\* the object from its construction with keyword arguments: reads, to_mesh
\* and a write of box_center
BuiltNext ==
    \/ \E f \in Fields : ReadField(f)
    \/ ToMesh
    \/ SetBoxCenter(<<1, 2, 3>>)

SpecBuilt == InitBuilt /\ [][BuiltNext]_vars

\* ===================================================================== claims
\* what synthesis gives for the current parameter values, in an empty cache
Synthesized == create_mesh(kind, data, attrs, EmptyCache(data))
CachePresent == \A f \in Fields : Cache_getitem(cache, data, f).set

\* C1: a cache slot that is present holds the result of synthesis on the
\* current parameter values, and every read of vertices, faces or
\* face_normals that returns, returns that result: no parameter write leaves
\* arrays computed from earlier values to be read.
C1_NoStaleCache ==
    LET fresh == Synthesized
    IN  /\ \A f \in Fields :
              Cache_getitem(cache, data, f).set =>
                  /\ fresh.err = "none"
                  /\ Cache_getitem(cache, data, f) = fresh.cache[f]
        /\ (ret.op \in Fields /\ ret.err = "none") =>
              /\ fresh.err = "none"
              /\ ret.val = fresh.cache[ret.op]

\* the extents of a Box were written and the read of vertices that follows
\* returns the corners scaled by the new extents
C1_Witness ==
    /\ kind = "Box"
    /\ ret.op = "vertices"
    /\ ret.err = "none"
    /\ box_extents(data) = <<2, 3, 4>>
    /\ Vertex(ret.val.v, 7) = <<2, 3, 4>>

\* C2 as stated: between two parameter writes _create_mesh is called at most
\* once, whatever is read.
C2_Original == runs <= 1

\* C2 amended: between two parameter writes _create_mesh returns at most
\* once, and a read of a field that was already read since the last write
\* returns the array the earlier read returned.
C2_SynthesisOnce ==
    [][ /\ okRuns' <= 1
        /\ \A f \in Fields :
              (ret'.op = f /\ ret'.err = "none" /\ lastRead[f].set) =>
                  ret'.val = lastRead[f] ]_vars

\* all three fields were read, faces twice in a row, with one synthesis
C2_Witness ==
    /\ okRuns = 1
    /\ runs = 1
    /\ \A f \in Fields : lastRead[f].set
    /\ ret.op = "faces"
    /\ ret.val = lastRead["faces"]

\* C3: a step that assigns to vertices, faces or face_normals raises nothing
\* and leaves the store, the instance attributes and the three cache slots as
\* they were, so that every read of a derived field gives what it would have
\* given before.
C3_DerivedWritesIgnored ==
    [][ (\E f \in Fields : ret'.op = f \o ".setter") =>
            /\ ret'.err = "none"
            /\ data' = data
            /\ attrs' = attrs
            /\ cache' = cache
            /\ \A f \in Fields :
                  derived_getter(kind', data', attrs', cache', f)
                      = derived_getter(kind, data, attrs, cache, f) ]_vars

\* an array was assigned to vertices while the cache was present
C3_Witness ==
    /\ ret.op = "vertices.setter"
    /\ ret.arg.set
    /\ ret.warn
    /\ CachePresent

\* number of faces whose winding agrees with the cached normal of the face
ConsistentFaces(c) ==
    Cardinality({j \in 1..Len(c.faces.v) :
        windings_aligned(Triangle(c.vertices.v, c.faces.v[j]),
                         c.face_normals.v[j])})

\* the Box with extents (1,1,1) and the identity transform
ReferenceBox == Box_create_mesh(EmptyStore, EmptyCache(EmptyStore)).cache

OneNegativeExtent(e) ==
    /\ Cardinality({i \in 1..3 : e[i] < 0}) = 1
    /\ Cardinality({i \in 1..3 : e[i] > 0}) = 2

\* C4: a Box with the identity transform and exactly one negative extent has,
\* once synthesized, all 12 faces winding-consistent with their cached
\* normals, as many as the Box with extents (1,1,1).
C4_Original ==
    ( /\ kind = "Box"
      /\ CachePresent
      /\ box_transform(data) = eye4
      /\ OneNegativeExtent(box_extents(data)) ) =>
        /\ ConsistentFaces(cache) = Len(UnitBoxFaces)
        /\ ConsistentFaces(cache) = ConsistentFaces(ReferenceBox)

\* valid index triples: three distinct indices into the vertices
ValidFace(face, nv) ==
    /\ \A i \in 1..3 : face[i] >= 0 /\ face[i] < nv
    /\ face[1] # face[2] /\ face[2] # face[3] /\ face[1] # face[3]

FaceIndices(face) == {face[1], face[2], face[3]}

\* C5: whenever the cache is present there are as many face normals as
\* faces, and every face holds three distinct indices below the number of
\* vertices; for a Box the faces are those of the unit box up to the order of
\* each triple, and the vertices are the 8 transformed corners.
C5_MeshConsistent ==
    CachePresent =>
        /\ cache.face_normals.shape[1] = cache.faces.shape[1]
        /\ Len(cache.faces.v) = cache.faces.shape[1]
        /\ \A j \in 1..Len(cache.faces.v) :
              ValidFace(cache.faces.v[j], cache.vertices.shape[1])
        /\ kind = "Box" =>
              /\ Len(cache.vertices.v) = Len(UnitBoxVertices)
              /\ Len(cache.faces.v) = Len(UnitBoxFaces)
              /\ Len(cache.face_normals.v) = Len(UnitBoxFaces)
              /\ \A j \in 1..Len(UnitBoxFaces) :
                    FaceIndices(cache.faces.v[j]) = FaceIndices(UnitBoxFaces[j])

\* a mirrored Box was synthesized and its faces reversed
C5_Witness ==
    /\ kind = "Box"
    /\ CachePresent
    /\ RotationBlock(box_transform(data)) = RotationBlock(MirrorX)
    /\ cache.faces.v = fliplr(UnitBoxFaces)

MissingHeight == "ValueError: extrude height not specified!"
MissingPolygon == "ValueError: extrude polygon not specified!"

\* C6: reading extrude_height (extrude_polygon) of an Extrusion before it
\* was set raises the "not specified" error; after extrude_height was set to
\* a number h a read returns h; while either of the two is unset every read
\* of a derived field raises that error and the three cache slots stay
\* absent.
C6_MissingParameter ==
    kind = "Extrusion" =>
        /\ (given = NoneArg) <=> ~DataStore_getitem(data, "extrude_height").set
        /\ ret.op = "extrude_height" =>
              IF given = NoneArg
              THEN ret.err = MissingHeight /\ ~ret.val.set
              ELSE /\ ret.err = "none"
                   /\ given.ty = "float" => ret.val = ScalarVal(given.n)
        /\ (ret.op = "extrude_polygon"
              /\ ~DataStore_getitem(data, "extrude_polygon").set) =>
              ret.err = MissingPolygon /\ ~ret.val.set
        /\ (given = NoneArg
              \/ ~DataStore_getitem(data, "extrude_polygon").set) =>
              /\ \A f \in Fields : ~cache[f].set
              /\ ret.op \in Fields =>
                    ret.err \in {MissingHeight, MissingPolygon}

\* the polygon is set, the height is not, and a read of faces has failed
C6_Witness ==
    /\ kind = "Extrusion"
    /\ DataStore_getitem(data, "extrude_polygon").set
    /\ given = NoneArg
    /\ ret.op = "faces"
    /\ ret.err = MissingHeight

\* C7: after any number of slides since extrude_transform was last assigned
\* (or since construction, where it reads as the identity) the transform is
\* the assigned one times a translation along Z by the sum of the distances,
\* and sliding by a then by b gives the transform that sliding by a+b gives.
C7_SlideComposes ==
    kind = "Extrusion" =>
        /\ extrude_transform(data)
              = MatMul4(slideBase, ZTranslation(slideSum))
        /\ slideBase = eye4 =>
              TranslationColumn(extrude_transform(data)) = <<0, 0, slideSum>>
        /\ \A a, b \in {2, 3} :
              slide(slide(data, Num(a)).data, Num(b)).data
                  = slide(data, Num(a + b)).data

\* slide(3) then slide(2) from the identity: translation (0,0,5)
C7_Witness ==
    /\ kind = "Extrusion"
    /\ slideBase = eye4
    /\ slideCount = 2
    /\ slideSum = 5
    /\ ret.op = "slide"
    /\ ret.arg = Num(2)
    /\ TranslationColumn(extrude_transform(data)) = <<0, 0, 5>>

\* C8: a write to the attribute store of a key that is not in the defaults
\* raises the "only default attributes" error and creates no entry for the
\* key, whether or not the key contains an underscore.
C8_Original ==
    (ret.op = "primitive_data.setattr" /\ ret.arg[1] \notin DefaultKeys) =>
        /\ ret.err = "ValueError: Only default attributes can be set!"
        /\ \A k \in UnderscoreNames : ~attrs[k].set

TransformSetters == {"box_transform.setter", "extrude_transform.setter"}

\* C9: a step that assigns a matrix that is not (4,4) to box_transform or
\* extrude_transform raises the "must be (4,4)" error and leaves the store,
\* the cache and with them the transform and the derived fields read next
\* as they were.
C9_BadMatrixRejected ==
    [][ (ret'.op \in TransformSetters /\ ret'.arg.shape # <<4, 4>>) =>
            /\ ret'.err = "ValueError: Matrix must be (4,4)!"
            /\ data' = data
            /\ cache' = cache
            /\ box_transform(data') = box_transform(data)
            /\ extrude_transform(data') = extrude_transform(data)
            /\ \A f \in Fields :
                  derived_getter(kind', data', attrs', cache', f)
                      = derived_getter(kind, data, attrs, cache, f) ]_vars

\* a (3,4) matrix was refused by a Box that has a stored transform and a
\* filled cache
C9_Witness ==
    /\ kind = "Box"
    /\ ret.op = "box_transform.setter"
    /\ ret.arg.shape = <<3, 4>>
    /\ ret.err = "ValueError: Matrix must be (4,4)!"
    /\ DataStore_getitem(data, "box_transform").set
    /\ CachePresent

VectorSetters ==
    {"box_extents.setter", "box_center.setter", "sphere_center.setter"}

\* C10: assigning an array whose length is not 3 to box_extents, box_center
\* or sphere_center raises an error and stores nothing.
C10_Original ==
    (ret.op \in VectorSetters /\ Len(ret.arg) # 3) =>
        /\ ret.err # "none"
        /\ kind = "Box" =>
              \/ ~DataStore_getitem(data, "box_extents").set
              \/ Len(DataStore_getitem(data, "box_extents").v) = 3
        /\ kind = "Sphere" =>
              \/ ~DataStore_getitem(data, "center").set
              \/ Len(DataStore_getitem(data, "center").v) = 3

\* C11: the volume of a Sphere or a Box is never stale.  A volume kept in
\* the cache, and the volume last returned, is 4/3 pi r^3 for the radius the
\* Sphere has now (carried as 4 r^3, in units of pi/3: 32 for radius 2, 108
\* for radius 3) or the product of the three extents the Box has now (24 for
\* extents (2,3,4)), whatever radius or extent writes and volume reads came
\* before.
VolumeNow ==
    IF kind = "Sphere"
    THEN LET r == IF data["radius"].set THEN data["radius"].v[1] ELSE 1
         IN  4 * r * r * r
    ELSE LET e == box_extents(data) IN e[1] * e[2] * e[3]
C11_VolumeCurrent ==
    kind \in {"Sphere", "Box"} =>
        /\ Cache_getitem(cache, data, "volume").set =>
               Cache_getitem(cache, data, "volume") = ScalarVal(VolumeNow)
        /\ ret.op = "volume" => ret.val = ScalarVal(VolumeNow)
        /\ (ret.op = "volume" /\ data["radius"] = Arr1(<<2>>)) =>
               ret.val = ScalarVal(32)
        /\ (ret.op = "volume" /\ data["radius"] = Arr1(<<3>>)) =>
               ret.val = ScalarVal(108)
        /\ (ret.op = "volume" /\ data["box_extents"] = Arr1(<<2, 3, 4>>)) =>
               ret.val = ScalarVal(24)
\* a Sphere whose radius was written as 3 returned its volume, 4/3 pi 27, and
\* keeps it in the cache
C11_Witness ==
    /\ kind = "Sphere"
    /\ ret.op = "volume"
    /\ data["radius"] = Arr1(<<3>>)
    /\ ret.val = ScalarVal(108)
    /\ cache.volume = ScalarVal(108)

\* C12: reading box_center changes nothing of the object, and a write of
\* box_center that returns changes the translation column of box_transform
\* to the value written and nothing else: the rotation block, the bottom
\* row, the stored and the read box_extents, is_oriented and every other
\* stored parameter are as before, whether or not a transform was ever set.
\* A write that raises changes nothing.
C12_CenterFrame ==
    [][/\ ret'.op = "box_center" =>
              UNCHANGED <<kind, data, attrs, cache>>
       /\ (ret'.op = "box_center.setter" /\ ret'.err = "none") =>
              /\ RotationBlock(box_transform(data')) =
                     RotationBlock(box_transform(data))
              /\ box_transform(data')[4] = box_transform(data)[4]
              /\ \A i \in 1..3 :
                     box_center(data')[i] =
                         ret'.arg[IF Len(ret'.arg) = 3 THEN i ELSE 1]
              /\ box_extents(data') = box_extents(data)
              /\ Box_is_oriented(data') = Box_is_oriented(data)
              /\ \A k \in Keys \ {"box_transform"} : data'[k] = data[k]
       /\ (ret'.op = "box_center.setter" /\ ret'.err # "none") =>
              UNCHANGED <<kind, data, attrs, cache>>
      ]_vars
\* box_center was written on a Box that is rotated: the rotation is still
\* there and the translation is the value written
C12_Witness ==
    /\ kind = "Box"
    /\ ret.op = "box_center.setter"
    /\ ret.err = "none"
    /\ RotationBlock(box_transform(data)) = RotationBlock(RotZ90)
    /\ Box_is_oriented(data)
    /\ box_center(data) = <<1, 2, 3>>

\* C13: the mesh to_mesh returns holds the derived fields as synthesis gives
\* them for the parameters at the call, and is independent of the primitive
\* both ways: a step that is neither to_mesh nor an edit of the returned
\* mesh (every parameter setter, every read) leaves its arrays as they are,
\* and an edit of one of its arrays leaves the primitive's parameters and
\* cache as they are, so that a later read of vertices, faces or
\* face_normals still returns what synthesis gives for the parameters.
SnapshotEdits == {"snapshot." \o f : f \in Fields}
C14_AllOrNone ==
    LET present == {f \in Fields : Cache_getitem(cache, data, f).set}
        fresh == Synthesized
    IN  /\ present = {} \/ present = Fields
        /\ present = Fields =>
               /\ fresh.err = "none"
               /\ \A f \in Fields :
                      Cache_getitem(cache, data, f) = fresh.cache[f]
        /\ (ret.op \in Fields /\ ret.err # "none") => present = {}
\* a read on the base class raised and left the three slots absent
C14_Witness ==
    /\ kind = "_Primitive"
    /\ ret.op = "faces"
    /\ ret.err = "ValueError: Primitive doesn't define mesh creation!"
    /\ runs = 2
    /\ \A f \in Fields : ~Cache_getitem(cache, data, f).set

\* determinant of a (3,3) matrix, and whether its rows are orthonormal
Det3(R) == Dot3(R[1], Cross3(R[2], R[3]))
Orthogonal(R) ==
    \A i, j \in 1..3 : Dot3(R[i], R[j]) = (IF i = j THEN 1 ELSE 0)

\* C15: a Box whose extents are all positive and whose transform has an
\* orthogonal rotation block (a rotation or a reflection) has, once
\* synthesized, 12 faces that all wind as their cached normals say; the
\* faces are those of the unit box reversed when the determinant of the
\* rotation block is negative and those of the unit box as they are when it
\* is positive.
C15_WindingConsistent ==
    LET R == RotationBlock(box_transform(data))
    IN  (/\ kind = "Box"
         /\ CachePresent
         /\ \A i \in 1..3 : box_extents(data)[i] > 0
         /\ Orthogonal(R)) =>
            /\ Len(cache.faces.v) = 12
            /\ ConsistentFaces(cache) = 12
            /\ Det3(R) < 0 => cache.faces.v = fliplr(UnitBoxFaces)
            /\ Det3(R) > 0 => cache.faces.v = UnitBoxFaces
\* a Box constructed with extents (2,3,4) and a reflection that also swaps
\* two axes was synthesized with its faces reversed
C15_Witness ==
    /\ kind = "Box"
    /\ CachePresent
    /\ box_extents(data) = <<2, 3, 4>>
    /\ RotationBlock(box_transform(data)) =
           << <<0, 1, 0>>, <<1, 0, 0>>, <<0, 0, 1>> >>
    /\ cache.faces.v = fliplr(UnitBoxFaces)
    /\ ConsistentFaces(cache) = 12

\* C16: the faces and face normals a Box synthesizes do not depend on the
\* translation column of box_transform: they are those synthesized for the
\* same extents and rotation block with the translation set to zero, and
\* every vertex is the vertex of that Box moved by the translation (twice
\* the translation in the doubled coordinates).  Two Boxes that differ in
\* translation only therefore have the same faces and normals, and vertices
\* that differ by the difference of the translations.
AtOrigin(d) == box_center_setter(d, zeros3).data
C16_TranslationFree ==
    (kind = "Box" /\ CachePresent) =>
        LET home == Box_create_mesh(AtOrigin(data),
                                    EmptyCache(AtOrigin(data))).cache
        IN  /\ cache.faces = home.faces
            /\ cache.face_normals = home.face_normals
            /\ Len(cache.vertices.v) = Len(home.vertices.v)
            /\ \A i \in 1..Len(home.vertices.v) :
                   cache.vertices.v[i] =
                       Add3(home.vertices.v[i], Twice(box_center(data)))
\* a rotated Box returned its mesh, box_center was then written as (1,2,3)
\* and face_normals read: the normals are those of the mesh returned before
\* the write, the vertices are not
C16_Witness ==
    /\ kind = "Box"
    /\ CachePresent
    /\ ret.op = "face_normals"
    /\ RotationBlock(box_transform(data)) = RotationBlock(RotZ90)
    /\ box_center(data) = <<1, 2, 3>>
    /\ snapshot.set
    /\ snapshot["face_normals"] = cache.face_normals
    /\ snapshot["vertices"] # cache.vertices

\* C17: a constructor, whatever keyword arguments it is given, runs no
\* synthesis and writes parameters only: in the state it leaves, from which
\* the first call is made, no cache slot is present, no mesh was made, and
\* the only keys stored are parameters of the class; and a slot that is
\* absent becomes present only in a read of vertices, faces or face_normals
\* or in to_mesh.
ParameterKeys(k) ==
    IF k = "Box" THEN {"box_extents", "box_transform"}
    ELSE IF k = "Sphere" THEN {"radius", "center"}
    ELSE IF k = "Extrusion"
    THEN {"extrude_polygon", "extrude_transform", "extrude_height"}
    ELSE IF k = "Cylinder" THEN DefaultKeys
    ELSE {}
SlotsAbsent ==
    \A f \in Fields \cup {"volume"} : ~Cache_getitem(cache, data, f).set
C17_NoSynthesisAtConstruction ==
    [][/\ ret.op = "__init__" =>
              /\ SlotsAbsent
              /\ runs = 0
              /\ ~snapshot.set
              /\ {k \in Keys : data[k].set} \subseteq ParameterKeys(kind)
       /\ (SlotsAbsent /\ ~SlotsAbsent') =>
              ret'.op \in Fields \cup {"to_mesh"}
      ]_vars
\* a Box was constructed with box_extents, box_transform and box_center: the
\* store holds them and the cache holds nothing
C17_Witness ==
    /\ kind = "Box"
    /\ ret.op = "__init__"
    /\ DOMAIN ret.arg = {"box_extents", "box_transform", "box_center"}
    /\ data["box_extents"].set
    /\ data["box_transform"].set
    /\ SlotsAbsent

\* C20: the Box constructor assigns box_extents, then box_transform, then
\* box_center, whatever the order the keywords were written in.  Constructed
\* with box_transform = M and box_center = c, the Box has the rotation block
\* and bottom row of M and the translation c; its extents are the
\* box_extents given, or (1,1,1) when none are given, whichever of the other
\* two keywords are given.
C20_KeywordOrder ==
    [][(kind = "Box" /\ ret.op = "__init__") =>
          LET kwargs == ret.arg
              M == IF "box_transform" \in DOMAIN kwargs
                   THEN kwargs.box_transform.v ELSE eye4
          IN  /\ RotationBlock(box_transform(data)) = RotationBlock(M)
              /\ box_transform(data)[4] = M[4]
              /\ box_center(data) = IF "box_center" \in DOMAIN kwargs
                                    THEN kwargs.box_center
                                    ELSE TranslationColumn(M)
              /\ box_extents(data) = IF "box_extents" \in DOMAIN kwargs
                                     THEN kwargs.box_extents ELSE ones3
      ]_vars
\* a Box constructed with extents (2,3,4), a rotation translated by (7,8,9)
\* and the center (1,2,3) has that rotation and the translation (1,2,3)
C20_Witness ==
    /\ kind = "Box"
    /\ ret.op = "__init__"
    /\ DOMAIN ret.arg = {"box_extents", "box_transform", "box_center"}
    /\ TranslationColumn(ret.arg.box_transform.v) = <<7, 8, 9>>
    /\ RotationBlock(box_transform(data)) = RotationBlock(RotZ90)
    /\ box_center(data) = <<1, 2, 3>>
    /\ box_extents(data) = <<2, 3, 4>>

\* C18: for a Sphere, whatever sphere_radius and sphere_center writes and
\* whatever reads came before, the unit sphere is the one made at
\* construction, the cached faces and face normals are its faces and
\* normals, and every cached vertex is the vertex of the unit sphere times
\* the radius the Sphere has now plus the center it has now (twice the
\* center in the doubled coordinates; a center of length 1 is broadcast).
\* With no radius stored the radius reads 1, with no center stored the
\* center reads (0,0,0).
C18_SphereFromUnit ==
    kind = "Sphere" =>
        LET r == IF data["radius"].set THEN data["radius"].v[1] ELSE 1
            stored == IF data["center"].set THEN data["center"].v ELSE zeros3
            center == [i \in 1..3 |->
                          stored[IF Len(stored) = 1 THEN 1 ELSE i]]
        IN  /\ unit_sphere = UnitSphere
            /\ CachePresent =>
                   /\ cache.faces = ArrN3(UnitSphereFaces)
                   /\ cache.face_normals = ArrN3(UnitSphereNormals)
                   /\ Len(cache.vertices.v) = Len(UnitSphereVertices)
                   /\ \A i \in 1..Len(UnitSphereVertices) :
                          cache.vertices.v[i] =
                              Add3(Scale3(r, UnitSphereVertices[i]),
                                   Twice(center))
            /\ ~data["radius"].set =>
                   /\ sphere_radius(data) = 1
                   /\ ret.op = "sphere_radius" => ret.val = ScalarVal(1)
            /\ ~data["center"].set =>
                   /\ sphere_center(data) = Arr1(zeros3)
                   /\ ret.op = "sphere_center" => ret.val = Arr1(zeros3)
\* a Sphere with radius 3 and center (1,2,3) was read: its first vertex is
\* (1,0,0) * 3 + (1,2,3), doubled
C18_Witness ==
    /\ kind = "Sphere"
    /\ data["radius"] = Arr1(<<3>>)
    /\ data["center"] = Arr1(<<1, 2, 3>>)
    /\ ret.op = "vertices"
    /\ ret.err = "none"
    /\ ret.val.v[1] = <<8, 4, 6>>
    /\ cache.faces = ArrN3(UnitSphereFaces)

\* C19: a slide that returns changes the translation column of
\* extrude_transform and nothing else.  The rotation block, the bottom row
\* and extrude_direction are as before, the translation has moved by the
\* distance times the third column of the rotation block, which is
\* extrude_direction, every other stored parameter (polygon, height) is as
\* before, and a read of a derived field after the slide returns what
\* synthesis gives for the new transform.  A slide that raises changes
\* nothing.
ThirdColumn(R) == << R[1][3], R[2][3], R[3][3] >>
C19_SlideFrame ==
    [][/\ (ret'.op = "slide" /\ ret'.err = "none") =>
              LET T == extrude_transform(data)
                  after == extrude_transform(data')
                  fresh == create_mesh(kind, data', attrs', EmptyCache(data'))
                  got == derived_getter(kind, data', attrs', cache',
                                        "vertices")
              IN  /\ RotationBlock(after) = RotationBlock(T)
                  /\ after[4] = T[4]
                  /\ extrude_direction(data') = extrude_direction(data)
                  /\ extrude_direction(data) = ThirdColumn(RotationBlock(T))
                  /\ TranslationColumn(after) =
                         Add3(TranslationColumn(T),
                              Scale3(ret'.arg.n, ThirdColumn(RotationBlock(T))))
                  /\ \A k \in Keys \ {"extrude_transform"} :
                         data'[k] = data[k]
                  /\ got.err = fresh.err
                  /\ got.err = "none" => got.val = fresh.cache["vertices"]
       /\ (ret'.op = "slide" /\ ret'.err # "none") =>
              UNCHANGED <<kind, data, attrs, cache>>
      ]_vars
\* an Extrusion whose transform turns local Z to world -Y and translates by
\* (1,2,3) slid by 3: the translation is (1,-1,3)
C19_Witness ==
    /\ kind = "Extrusion"
    /\ ret.op = "slide"
    /\ ret.err = "none"
    /\ ret.arg = Num(3)
    /\ slideBase = RotX90Moved
    /\ slideCount = 1
    /\ extrude_direction(data) = <<0, -1, 0>>
    /\ TranslationColumn(extrude_transform(data)) = <<1, -1, 3>>

====
